---- MODULE Spec2Model ----
(***************************************************************************)
(* State-machine model of acq164AsynPortDriver.cpp: the asyn port driver   *)
(* (constructor, writeInt32, writeFloat64) and Acq164Device (compute_cal,  *)
(* setup, onFrame, task).  Spec takes every handler as one step;           *)
(* SpecThreads takes onFrame and writeFloat64 statement by statement.      *)
(*                                                                         *)
(* Numbers.  Voltages are doubles in the source.  With integer device      *)
(* ranges every value the driver computes is an integer multiple of        *)
(* 2^-24 V of magnitude far below 2^53, so double arithmetic is exact and  *)
(* the model keeps every voltage as an integer count of 2^-24 V (VoltUnit  *)
(* counts per volt).  A published average is kept as the pair (sum, n) of  *)
(* the quotient sum/n.  P_UpdateTime is kept in hundredths of a second.    *)
(***************************************************************************)
EXTENDS Integers, Sequences, FiniteSets, TLC

VARIABLES
    pc,                 \* position of the streaming thread (task)
    nchan,              \* acq164AsynPortDriver::nchan
    maxPoints,          \* P_MaxPoints, after the constructor's correction
    FRAME_SAMPLES,      \* samples per channel in a frame (Frame.h)
    devState,           \* what card.getState() reports
    getStateOK,         \* whether card.getState() returns STATUS_OK
    armed,              \* setup() issued the configure/arm commands
    handlerRegistered,  \* addFrameHandler(this) was called
    calCount,           \* number of compute_cal() calls
    eslo, eoff,         \* calibration table
    cursor,             \* Acq164Device::cursor
    pData_,             \* waveform buffer, nchan*maxPoints values
    acc,                \* the accumulator
    P_Run, P_ScanFreq, P_UpdateTime, P_Scalar,   \* parameter library
    eventId_,           \* epicsEvent: TRUE when signalled
    heapDamaged,        \* a write beyond pData_ has happened
    nFrames,            \* frames onFrame has returned from
    rawLog,             \* per device channel, every raw sample delivered
    nScalar,            \* per channel, number of P_Scalar publications
    nWaveform,          \* per channel, number of waveform callbacks
    wfOut,              \* per channel, the array of the last callback
    fault,              \* where the stuck-at-zero exit was taken, or NoFault
    diag,               \* what the exit printed, or NoDiag
    strayWrite,         \* a write outside the writing channel's segment happened
    utChanged,          \* P_UpdateTime is flagged changed in the parameter library
    utSeen,             \* the P_UpdateTime value last delivered to subscribers
    lastWrite,          \* the latest writeFloat64 call: argument, and status on return
    wpc, wvalue,        \* writeFloat64 in progress: position and local `value`
    fpc, scan_freq      \* onFrame in progress: position and local `scan_freq`

vars == << pc, nchan, maxPoints, FRAME_SAMPLES, devState, getStateOK, armed,
           handlerRegistered, calCount, eslo, eoff, cursor, pData_, acc,
           P_Run, P_ScanFreq, P_UpdateTime, P_Scalar, eventId_, heapDamaged,
           nFrames, rawLog, nScalar, nWaveform, wfOut, fault, diag, strayWrite,
           utChanged, utSeen, lastWrite, wpc, wvalue, fpc, scan_freq >>

cfgVars == << nchan, maxPoints, FRAME_SAMPLES, devState, getStateOK >>
outVars == << nFrames, rawLog, nScalar, nWaveform, wfOut, fault, diag >>
dataVars == << cursor, pData_, acc, P_UpdateTime, P_Scalar, heapDamaged, strayWrite >>
cbVars == << utChanged, utSeen >>
callVars == << lastWrite, wpc, wvalue >>
frameVars == << fpc, scan_freq >>

----------------------------------------------------------------------------
(* Bounds of the exploration *)

MaxFrames == 3
MaxThreadFrames == 2

(* Program constants *)

X1 == -(2^23)
X2 == 2^23
ZERO_LIMIT == 60
DEFAULT_MAX_POINTS == 100
INIT_UPDATE_TIME == 50
MIN_UPDATE_TIME == 2
NSPS == 64

VoltUnit == X2 - X1

\* a parameter of the library is undefined until it is first set
Undefined == << >>
Defined(v) == << v >>
ValueOf(p) == p[1]
NoFault == [chan |-> -1, id |-> -1, start |-> -1]
NoDiag == << >>
NoWrite == [value |-> 0, status |-> "none"]

Chans == 0 .. (nchan - 1)

Min(a, b) == IF a < b THEN a ELSE b

----------------------------------------------------------------------------
(* Inputs *)

\* a run of the program: the constructor arguments maxPoints and nchan, the
\* build's FRAME_SAMPLES, and what the device answers to getState
Runs ==
    { [mp |-> 4,  fs |-> 2,  nchan |-> 2, state |-> "ST_STOP", ok |-> TRUE],
      [mp |-> 3,  fs |-> 2,  nchan |-> 2, state |-> "ST_STOP", ok |-> TRUE],
      [mp |-> 2,  fs |-> 1,  nchan |-> 1, state |-> "ST_RUN",  ok |-> TRUE],
      [mp |-> 2,  fs |-> 1,  nchan |-> 1, state |-> "ST_STOP", ok |-> FALSE],
      [mp |-> 64, fs |-> 64, nchan |-> 2, state |-> "ST_STOP", ok |-> TRUE],
      [mp |-> 0,  fs |-> 64, nchan |-> 1, state |-> "ST_STOP", ok |-> TRUE] }

\* values a client writes to the scan frequency
ScanFreqValues == {0, 16, 21}

\* values a client writes to the update interval, in hundredths of a second
UpdateTimeValues == {1, 3}

\* voltage range the device reports for device channel k, in volts
DeviceRange(k) ==
    IF k = 0 THEN [vmin |-> -2, vmax |-> 2]
    ELSE IF k % 2 = 1 THEN [vmin |-> -1, vmax |-> 1]
    ELSE [vmin |-> 0, vmax |-> 1]

\* raw codes of a frame: lead zeros, then mid samples of code v, then zeros
PatternSamples(fs, lead, mid, v) ==
    [i \in 1 .. fs |-> IF i <= lead THEN 0
                       ELSE IF i <= lead + mid THEN v ELSE 0]

Shapes(fs) ==
    { <<0, fs>>, <<fs, 0>>, <<0, fs \div 2>>, <<fs \div 2, fs>>,
      <<Min(ZERO_LIMIT, fs), fs>>, <<Min(ZERO_LIMIT, fs), 1>> }

HotCode(k) == IF k % 2 = 1 THEN X1 ELSE X2 - 1

\* a frame: device channel `hot` carries a pattern, the others plain data
Frames(fs, n, hot) ==
    { [k \in 1 .. n |-> IF k = hot
                        THEN PatternSamples(fs, sh[1], sh[2], HotCode(k))
                        ELSE PatternSamples(fs, 0, fs, k)] : sh \in Shapes(fs) }

----------------------------------------------------------------------------
(* The accumulator (class of acq164AsynPortDriver.h) *)

AccInit(n) == [sum |-> [c \in 0 .. (n - 1) |-> 0], count |-> [c \in 0 .. (n - 1) |-> 0]]

AccSet(a, ic, v) ==
    [sum |-> [a.sum EXCEPT ![ic] = @ + v], count |-> [a.count EXCEPT ![ic] = @ + 1]]

AccUpdateTimestamp(a, period) == a.count[0] >= period

AccGet(a, ic) == [sum |-> a.sum[ic], n |-> a.count[ic]]

AccClear(a) == [sum |-> [c \in DOMAIN a.sum |-> 0], count |-> [c \in DOMAIN a.count |-> 0]]

----------------------------------------------------------------------------
(* Constructor *)

CtorMaxPoints(arg) == IF arg < 1 THEN DEFAULT_MAX_POINTS ELSE arg

Init ==
    /\ \E r \in Runs :
          /\ maxPoints = CtorMaxPoints(r.mp)
          /\ FRAME_SAMPLES = r.fs
          /\ nchan = r.nchan
          /\ devState = r.state
          /\ getStateOK = r.ok
    /\ pc = "task"
    /\ armed = FALSE
    /\ handlerRegistered = FALSE
    /\ calCount = 0
    /\ eslo = << >>
    /\ eoff = << >>
    /\ cursor = 0
    /\ pData_ = [i \in 0 .. (nchan * maxPoints - 1) |-> 0]
    /\ acc = AccInit(nchan)
    /\ P_Run = 0
    /\ P_ScanFreq = Undefined
    /\ P_UpdateTime = INIT_UPDATE_TIME
    /\ P_Scalar = [c \in Chans |-> Undefined]
    /\ eventId_ = FALSE
    /\ heapDamaged = FALSE
    /\ nFrames = 0
    /\ rawLog = [k \in 1 .. nchan |-> << >>]
    /\ nScalar = [c \in Chans |-> 0]
    /\ nWaveform = [c \in Chans |-> 0]
    /\ wfOut = [c \in Chans |-> << >>]
    /\ fault = NoFault
    /\ diag = NoDiag
    /\ strayWrite = FALSE
    /\ utChanged = FALSE
    /\ utSeen = Undefined
    /\ lastWrite = NoWrite
    /\ wpc = "idle"
    /\ wvalue = 0
    /\ fpc = "idle"
    /\ scan_freq = Undefined

----------------------------------------------------------------------------
(* Streaming thread: task(), compute_cal(), setup() *)

\* ESLO in counts per raw code step
CalEslo(Y1, Y2) == ((Y2 - Y1) * VoltUnit) \div (X2 - X1)

\* EOFF in counts
CalEoff(Y1, Y2) == Y1 * VoltUnit - X1 * CalEslo(Y1, Y2)

\* variant: the ranges are read from index ii
RangeIndex_same(ii) == ii

\* the index into ranges[] that compute_cal reads for channel ii
RangeIndex(ii) == ii + 1

\* variant: task() calibrates again instead of entering the stream
TaskStep_recal(p) ==
    CASE p = "task" -> "setup"
      [] p = "addFrameHandler" -> "streamData"
      [] p = "streamData" -> "task"

\* the order of the calls of task(): where it is after the call at p returns
TaskStep(p) ==
    CASE p = "task" -> "setup"
      [] p = "addFrameHandler" -> "streamData"
      [] p = "streamData" -> "streaming"

ComputeCal ==
    /\ pc = "task"
    /\ eslo' = [ii \in Chans |->
                  CalEslo(DeviceRange(RangeIndex(ii)).vmin, DeviceRange(RangeIndex(ii)).vmax)]
    /\ eoff' = [ii \in Chans |->
                  CalEoff(DeviceRange(RangeIndex(ii)).vmin, DeviceRange(RangeIndex(ii)).vmax)]
    /\ calCount' = calCount + 1
    /\ pc' = TaskStep(pc)
    /\ UNCHANGED << cfgVars, outVars, dataVars, cbVars, callVars, frameVars, armed, handlerRegistered,
                    P_Run, P_ScanFreq, eventId_ >>

\* variant: a failed state query is reported and ignored
SetupNext_ignore(ok, state) == "addFrameHandler"

\* where task() is after setup(): exit(1) ends the process, both returns of
\* setup() come back to task(), which goes on to addFrameHandler
SetupNext(ok, state) == IF ~ok THEN "exited" ELSE "addFrameHandler"

\* whether setup() issues the channel_mask / role / setMode / setArm commands
SetupArms(ok, state) == ok /\ state = "ST_STOP"

Setup ==
    /\ pc = "setup"
    /\ pc' = SetupNext(getStateOK, devState)
    /\ armed' = SetupArms(getStateOK, devState)
    /\ UNCHANGED << cfgVars, outVars, dataVars, cbVars, callVars, frameVars, handlerRegistered, calCount,
                    eslo, eoff, P_Run, P_ScanFreq, eventId_ >>

AddFrameHandler ==
    /\ pc = "addFrameHandler"
    /\ handlerRegistered' = TRUE
    /\ pc' = TaskStep(pc)
    /\ UNCHANGED << cfgVars, outVars, dataVars, cbVars, callVars, frameVars, armed, calCount,
                    eslo, eoff, P_Run, P_ScanFreq, eventId_ >>

StreamData ==
    /\ pc = "streamData"
    /\ pc' = TaskStep(pc)
    /\ UNCHANGED << cfgVars, outVars, dataVars, cbVars, callVars, frameVars, armed, handlerRegistered, calCount,
                    eslo, eoff, P_Run, P_ScanFreq, eventId_ >>

\* the transport ends: streamData() and task() return
EndOfStream ==
    /\ pc = "streaming"
    /\ fpc = "idle"
    /\ pc' = "done"
    /\ UNCHANGED << cfgVars, outVars, dataVars, cbVars, callVars, frameVars, armed, handlerRegistered, calCount,
                    eslo, eoff, P_Run, P_ScanFreq, eventId_ >>

----------------------------------------------------------------------------
(* onFrame: the per-sample loop *)

\* raw samples of channel ic: cf->getChannel(ic+1)
RawChannel(frame, ic) == frame[ic + 1]

\* the zero counter after sample yy; there is no else branch that resets it
NextZeros(zeros, yy) == IF yy = 0 THEN zeros + 1 ELSE zeros

ZeroFault(zeros) == zeros > ZERO_LIMIT

Volts(ic, yy) == eslo[ic] * yy + eoff[ic]

WriteIndex(ic, cur, id) == ic * maxPoints + cur + id

\* pData_[ix] = volts; an index beyond the allocation is recorded in oob
Store(st, ix, volts) ==
    IF ix \in DOMAIN st.pData
    THEN [st EXCEPT !.pData[ix] = volts]
    ELSE [st EXCEPT !.oob = TRUE]

\* whether index ix lies in the segment of channel ic
InSegment(ic, ix) == ic * maxPoints <= ix /\ ix < (ic + 1) * maxPoints

\* variant: the sample is not handed to the accumulator
Accumulate_skip(a, ic, volts) == a

\* the accumulator after one sample
Accumulate(a, ic, volts) == AccSet(a, ic, volts)

\* body of the inner loop for sample id of channel ic, reached with no fault
SampleStep(st, ic, id, yy, zeros, start) ==
    IF yy = 0 /\ ZeroFault(zeros)
    THEN [st EXCEPT !.fault = [chan |-> ic, id |-> id, start |-> start]]
    ELSE LET volts == Volts(ic, yy)
             ix == WriteIndex(ic, cursor, id)
             st1 == Store(st, ix, volts)
         IN  [st1 EXCEPT !.acc = Accumulate(st1.acc, ic, volts),
                         !.stray = @ \/ ~InSegment(ic, ix)]

RECURSIVE ChannelLoop(_, _, _, _, _, _)
ChannelLoop(st, ic, raw, id, zeros, start) ==
    IF id >= FRAME_SAMPLES \/ st.fault # NoFault
    THEN st
    ELSE LET z == NextZeros(zeros, raw[id + 1])
         IN  ChannelLoop(SampleStep(st, ic, id, raw[id + 1], z, start),
                         ic, raw, id + 1, z, start)

RECURSIVE FrameLoop(_, _, _, _)
FrameLoop(st, frame, ic, start) ==
    IF ic >= nchan \/ st.fault # NoFault
    THEN st
    ELSE FrameLoop(ChannelLoop(st, ic, RawChannel(frame, ic), 0, 0, start),
                   frame, ic + 1, start)

\* the state the loops leave for a frame
Loop(frame, start) ==
    FrameLoop([pData |-> pData_, acc |-> acc, fault |-> NoFault, oob |-> FALSE,
               stray |-> FALSE],
              frame, 0, start)

----------------------------------------------------------------------------
(* onFrame: after the loops *)

\* C integer division, truncating toward zero
CDiv(a, b) ==
    IF (a >= 0) = (b >= 0)
    THEN (IF a >= 0 THEN a ELSE -a) \div (IF b >= 0 THEN b ELSE -b)
    ELSE -((IF a >= 0 THEN a ELSE -a) \div (IF b >= 0 THEN b ELSE -b))

\* what getIntegerParam(P_ScanFreq, &scan_freq) leaves in the local: the
\* parameter, or whatever the uninitialised local held while it is undefined
ScanFreqRead(param) == IF param = Undefined THEN ScanFreqValues ELSE {ValueOf(param)}

\* NSPS/scan_freq; a zero divisor is undefined, and the builds that do not
\* trap produce the quotient 0
Period(sf) == IF sf = 0 THEN 0 ELSE CDiv(NSPS, sf)

FlushDue(a, sf) == AccUpdateTimestamp(a, Period(sf))

\* variant: the flush branch does not clear the accumulator
AfterFlush_keep(a) == a

\* the accumulator after the flush branch has run
AfterFlush(a) == AccClear(a)

\* variant: the comparison of the cursor is strict
WaveformFull_gt(cur) == cur > maxPoints

WaveformFull(cur) == cur >= maxPoints

\* variant: every callback is handed the start of the buffer
Segment_first(buf, ic) == [i \in 0 .. (maxPoints - 1) |-> buf[i]]

\* the maxPoints values at pData_ + ic*maxPoints
Segment(buf, ic) == [i \in 0 .. (maxPoints - 1) |-> buf[ic * maxPoints + i]]

\* the first sample number of the frame, in the units of P_UpdateTime
UpdateTimeOf(start) == start * 100

StartSample == nFrames * FRAME_SAMPLES

\* the device channel whose samples carry a pattern in the next frame
HotChannel == 1 + ((nFrames \div 2) % nchan)

FrameInputs == Frames(FRAME_SAMPLES, nchan, HotChannel)

Delivered(frame) == [k \in 1 .. nchan |-> rawLog[k] \o frame[k]]

\* setDoubleParam flags the parameter changed when the value differs
Changed(flag, old, new) == flag \/ old # new

\* callParamCallbacks on list 0: a flagged P_UpdateTime goes to the subscribers
Seen(seen, flag, value) == IF flag THEN Defined(value) ELSE seen

\* the loops end without a fault: the rest of onFrame runs and it returns
OnFrameReturn(frame, st) ==
    \E sf \in ScanFreqRead(P_ScanFreq) :
        LET cur == cursor + FRAME_SAMPLES
            flush == FlushDue(st.acc, sf)
            full == WaveformFull(cur)
            seen1 == IF flush THEN Seen(utSeen, utChanged, P_UpdateTime) ELSE utSeen
            flag1 == IF flush THEN FALSE ELSE utChanged
        IN  /\ st.fault = NoFault
            /\ heapDamaged' = (heapDamaged \/ st.oob)
            /\ strayWrite' = (strayWrite \/ st.stray)
            /\ utSeen' = IF full
                         THEN Seen(seen1, Changed(flag1, P_UpdateTime, UpdateTimeOf(StartSample)),
                                   UpdateTimeOf(StartSample))
                         ELSE seen1
            /\ utChanged' = IF full THEN FALSE ELSE flag1
            /\ pData_' = st.pData
            /\ P_Scalar' = IF flush THEN [c \in Chans |-> Defined(AccGet(st.acc, c))]
                           ELSE P_Scalar
            /\ nScalar' = IF flush THEN [c \in Chans |-> nScalar[c] + 1]
                          ELSE nScalar
            /\ acc' = IF flush THEN AfterFlush(st.acc) ELSE st.acc
            /\ P_UpdateTime' = IF full THEN UpdateTimeOf(StartSample)
                               ELSE P_UpdateTime
            /\ wfOut' = IF full THEN [c \in Chans |-> Segment(st.pData, c)]
                        ELSE wfOut
            /\ nWaveform' = IF full THEN [c \in Chans |-> nWaveform[c] + 1]
                            ELSE nWaveform
            /\ cursor' = IF full THEN 0 ELSE cur
            /\ nFrames' = nFrames + 1
            /\ rawLog' = Delivered(frame)
            /\ UNCHANGED << pc, fault, diag >>

\* what the printf before exit(1) prints: __FUNCTION__ and the start sample
\* number of the frame
Diagnostic(f) == [function |-> "onFrame", start |-> f.start]

\* variant: the diagnostic is printed and the stream goes on
AfterFault_continue == "streaming"

\* exit(1) after the diagnostic: the process is gone
AfterFault == "exited"

\* the loops detect the run of zeros: printf and exit(1) inside the loop
OnFrameExit(frame, st) ==
    /\ st.fault # NoFault
    /\ heapDamaged' = (heapDamaged \/ st.oob)
    /\ pData_' = st.pData
    /\ acc' = st.acc
    /\ strayWrite' = (strayWrite \/ st.stray)
    /\ fault' = st.fault
    /\ diag' = Diagnostic(st.fault)
    /\ rawLog' = Delivered(frame)
    /\ pc' = AfterFault
    /\ UNCHANGED << cursor, P_UpdateTime, P_Scalar, nFrames, nScalar, nWaveform,
                    wfOut, cbVars >>

\* onFrame does not return: a store beyond the allocation of pData_, or the
\* division by a zero scan_freq, brings the process down
OnFrameCrash(frame, st) ==
    /\ st.oob \/ (st.fault = NoFault /\ 0 \in ScanFreqRead(P_ScanFreq))
    /\ heapDamaged' = (heapDamaged \/ st.oob)
    /\ pData_' = st.pData
    /\ acc' = st.acc
    /\ strayWrite' = (strayWrite \/ st.stray)
    /\ rawLog' = Delivered(frame)
    /\ pc' = "crashed"
    /\ UNCHANGED << cursor, P_UpdateTime, P_Scalar, nFrames, nScalar, nWaveform,
                    wfOut, fault, diag, cbVars >>

\* the streamer hands the next frame to the registered handler
OnFrame ==
    /\ pc = "streaming"
    /\ handlerRegistered
    /\ fpc = "idle"
    /\ nFrames < MaxFrames
    /\ \E frame \in FrameInputs : \E st \in {Loop(frame, StartSample)} :
          \/ OnFrameReturn(frame, st)
          \/ OnFrameExit(frame, st)
          \/ OnFrameCrash(frame, st)
    /\ UNCHANGED << cfgVars, callVars, frameVars, armed, handlerRegistered, calCount,
                    eslo, eoff, P_Run, P_ScanFreq, eventId_ >>

----------------------------------------------------------------------------
(* Client thread: writeInt32, writeFloat64.  The port is locked for the   *)
(* length of a client call, so client calls exclude each other; the        *)
(* streaming thread does not take the lock.                                *)

Alive == pc \notin {"exited", "crashed"}

\* setIntegerParam(function, value); signal the event when P_Run is set
\* non-zero; callParamCallbacks()
WriteInt32(function, value) ==
    /\ Alive
    /\ wpc = "idle"
    /\ P_Run' = IF function = "P_Run" THEN value ELSE P_Run
    /\ P_ScanFreq' = IF function = "P_ScanFreq" THEN Defined(value) ELSE P_ScanFreq
    /\ eventId_' = (eventId_ \/ (function = "P_Run" /\ value # 0))
    /\ utSeen' = Seen(utSeen, utChanged, P_UpdateTime)
    /\ utChanged' = FALSE
    /\ UNCHANGED << cfgVars, outVars, dataVars, callVars, frameVars, pc, armed,
                    handlerRegistered, calCount, eslo, eoff >>

WriteScanFreq == \E v \in ScanFreqValues : WriteInt32("P_ScanFreq", v)

\* a client starts or stops the run flag
WriteRun == \E v \in {0, 1} : WriteInt32("P_Run", v)

\* variant: the value is stored as it was written
ClampUpdateTime_none(value) == value

\* the local `value` after the check against MIN_UPDATE_TIME
ClampUpdateTime(value) == IF value < MIN_UPDATE_TIME THEN MIN_UPDATE_TIME ELSE value

\* the status writeFloat64 returns: that of callParamCallbacks()
CallbackStatus == "asynSuccess"

\* writeFloat64(P_UpdateTime, value) from the call to the return
WriteFloat64(value) ==
    LET v == ClampUpdateTime(value)
        flag == Changed(Changed(utChanged, P_UpdateTime, value), value, v)
    IN  /\ Alive
        /\ wpc = "idle"
        /\ P_UpdateTime' = v
        /\ eventId_' = (eventId_ \/ P_Run # 0)
        /\ utSeen' = Seen(utSeen, flag, v)
        /\ utChanged' = FALSE
        /\ lastWrite' = [value |-> value, status |-> CallbackStatus]
        /\ UNCHANGED << cfgVars, outVars, frameVars, pc, armed, handlerRegistered,
                        calCount, eslo, eoff, cursor, pData_, acc, P_Scalar,
                        heapDamaged, strayWrite, P_Run, P_ScanFreq, wpc, wvalue >>

WriteUpdateTime == \E v \in UpdateTimeValues : WriteFloat64(v)

----------------------------------------------------------------------------

Next ==
    \/ ComputeCal
    \/ Setup
    \/ AddFrameHandler
    \/ StreamData
    \/ OnFrame
    \/ EndOfStream
    \/ WriteScanFreq
    \/ WriteUpdateTime

Spec == Init /\ [][Next]_vars

----------------------------------------------------------------------------
(* The two threads statement by statement.  onFrame runs on the streaming  *)
(* thread without the port lock, so a client call and a frame interleave   *)
(* at every access to the parameter library.  The sample loops touch only  *)
(* cursor, pData_ and acc, which no client call reads or writes: they are  *)
(* one step.                                                               *)

\* lines 393-412: the loops and cursor += FRAME_SAMPLES
FrameLoops ==
    /\ pc = "streaming"
    /\ handlerRegistered
    /\ fpc = "idle"
    /\ nFrames < MaxThreadFrames
    /\ \E frame \in FrameInputs : \E st \in {Loop(frame, StartSample)} :
          /\ pData_' = st.pData
          /\ acc' = st.acc
          /\ heapDamaged' = (heapDamaged \/ st.oob)
          /\ strayWrite' = (strayWrite \/ st.stray)
          /\ rawLog' = Delivered(frame)
          /\ \/ /\ st.fault = NoFault
                /\ cursor' = cursor + FRAME_SAMPLES
                /\ fpc' = "getIntegerParam"
                /\ UNCHANGED << pc, fault, diag >>
             \/ /\ st.fault # NoFault
                /\ fault' = st.fault
                /\ diag' = Diagnostic(st.fault)
                /\ pc' = AfterFault
                /\ UNCHANGED << cursor, fpc >>
             \/ /\ st.oob
                /\ pc' = "crashed"
                /\ UNCHANGED << cursor, fpc, fault, diag >>
    /\ UNCHANGED << cfgVars, cbVars, callVars, armed, handlerRegistered, calCount,
                    eslo, eoff, P_Run, P_ScanFreq, P_UpdateTime, P_Scalar, eventId_,
                    nFrames, nScalar, nWaveform, wfOut, scan_freq >>

\* lines 414-415: int scan_freq; getIntegerParam(P_ScanFreq, &scan_freq)
FrameGetParam ==
    /\ Alive
    /\ fpc = "getIntegerParam"
    /\ \E sf \in ScanFreqRead(P_ScanFreq) : scan_freq' = Defined(sf)
    /\ fpc' = "flush"
    /\ UNCHANGED << cfgVars, outVars, dataVars, cbVars, callVars, pc, armed,
                    handlerRegistered, calCount, eslo, eoff, P_Run, P_ScanFreq,
                    eventId_ >>

\* variant: the flush decision reads the parameter again
FlushFreq_reread(local, param) == IF param = Undefined THEN local ELSE ValueOf(param)

\* the frequency the flush decision of line 417 divides by: the local
FlushFreq(local, param) == local

\* lines 417-424: the flush decision and the flush
FrameFlush ==
    /\ Alive
    /\ fpc = "flush"
    /\ \/ LET flush == FlushDue(acc, FlushFreq(ValueOf(scan_freq), P_ScanFreq))
          IN  /\ P_Scalar' = IF flush THEN [c \in Chans |-> Defined(AccGet(acc, c))]
                             ELSE P_Scalar
              /\ nScalar' = IF flush THEN [c \in Chans |-> nScalar[c] + 1] ELSE nScalar
              /\ acc' = IF flush THEN AfterFlush(acc) ELSE acc
              /\ utSeen' = IF flush THEN Seen(utSeen, utChanged, P_UpdateTime) ELSE utSeen
              /\ utChanged' = IF flush THEN FALSE ELSE utChanged
              /\ fpc' = "window"
              /\ pc' = pc
       \/ /\ ValueOf(scan_freq) = 0
          /\ pc' = "crashed"
          /\ UNCHANGED << P_Scalar, nScalar, acc, cbVars, fpc >>
    /\ UNCHANGED << cfgVars, callVars, armed, handlerRegistered, calCount, eslo, eoff,
                    P_Run, P_ScanFreq, P_UpdateTime, eventId_, cursor, pData_,
                    heapDamaged, strayWrite, nFrames, rawLog, nWaveform, wfOut,
                    fault, diag, scan_freq >>

\* lines 426-436: the waveform window, and the return
FrameWindow ==
    /\ Alive
    /\ fpc = "window"
    /\ LET full == WaveformFull(cursor)
       IN  /\ P_UpdateTime' = IF full THEN UpdateTimeOf(StartSample) ELSE P_UpdateTime
           /\ utSeen' = IF full
                        THEN Seen(utSeen,
                                  Changed(utChanged, P_UpdateTime, UpdateTimeOf(StartSample)),
                                  UpdateTimeOf(StartSample))
                        ELSE utSeen
           /\ utChanged' = IF full THEN FALSE ELSE utChanged
           /\ wfOut' = IF full THEN [c \in Chans |-> Segment(pData_, c)] ELSE wfOut
           /\ nWaveform' = IF full THEN [c \in Chans |-> nWaveform[c] + 1] ELSE nWaveform
           /\ cursor' = IF full THEN 0 ELSE cursor
    /\ nFrames' = nFrames + 1
    /\ fpc' = "idle"
    /\ scan_freq' = Undefined
    /\ UNCHANGED << cfgVars, callVars, pc, armed, handlerRegistered, calCount, eslo,
                    eoff, P_Run, P_ScanFreq, P_Scalar, eventId_, pData_, acc,
                    heapDamaged, strayWrite, rawLog, nScalar, fault, diag >>

\* line 201: setDoubleParam(function, value)
WriteFloat64Store ==
    /\ Alive
    /\ wpc = "idle"
    /\ \E v \in UpdateTimeValues :
          /\ P_UpdateTime' = v
          /\ utChanged' = Changed(utChanged, P_UpdateTime, v)
          /\ wvalue' = v
          /\ lastWrite' = [value |-> v, status |-> "pending"]
    /\ wpc' = "check"
    /\ UNCHANGED << cfgVars, outVars, frameVars, pc, armed, handlerRegistered,
                    calCount, eslo, eoff, cursor, pData_, acc, P_Scalar, heapDamaged,
                    strayWrite, P_Run, P_ScanFreq, eventId_, utSeen >>

\* lines 206-217: the check against MIN_UPDATE_TIME and the event
WriteFloat64Check ==
    /\ Alive
    /\ wpc = "check"
    /\ wvalue' = ClampUpdateTime(wvalue)
    /\ P_UpdateTime' = IF wvalue' # wvalue THEN wvalue' ELSE P_UpdateTime
    /\ utChanged' = IF wvalue' # wvalue THEN Changed(utChanged, P_UpdateTime, wvalue')
                    ELSE utChanged
    /\ eventId_' = (eventId_ \/ P_Run # 0)
    /\ wpc' = "callbacks"
    /\ UNCHANGED << cfgVars, outVars, frameVars, pc, armed, handlerRegistered,
                    calCount, eslo, eoff, cursor, pData_, acc, P_Scalar, heapDamaged,
                    strayWrite, P_Run, P_ScanFreq, utSeen, lastWrite >>

\* lines 224-234: callParamCallbacks() and the return
WriteFloat64Callbacks ==
    /\ Alive
    /\ wpc = "callbacks"
    /\ utSeen' = Seen(utSeen, utChanged, P_UpdateTime)
    /\ utChanged' = FALSE
    /\ lastWrite' = [lastWrite EXCEPT !.status = CallbackStatus]
    /\ wpc' = "idle"
    /\ UNCHANGED << cfgVars, outVars, dataVars, frameVars, pc, armed,
                    handlerRegistered, calCount, eslo, eoff, P_Run, P_ScanFreq,
                    eventId_, wvalue >>

\* the runs whose frames are shorter than the flush unit
InitThreads == Init /\ FRAME_SAMPLES < NSPS

NextThreads ==
    \/ ComputeCal
    \/ Setup
    \/ AddFrameHandler
    \/ StreamData
    \/ EndOfStream
    \/ FrameLoops
    \/ FrameGetParam
    \/ FrameFlush
    \/ FrameWindow
    \/ WriteScanFreq
    \/ WriteRun
    \/ WriteFloat64Store
    \/ WriteFloat64Check
    \/ WriteFloat64Callbacks

SpecThreads == InitThreads /\ [][NextThreads]_vars

----------------------------------------------------------------------------
(* Reference notions the properties are stated with *)

\* linear interpolation of raw code x over the range of device channel k:
\* Ymin at X1, Ymax at X2, in counts of 2^-24 V
Interp(k, x) ==
    DeviceRange(k).vmin * VoltUnit
        + (x - X1) * (DeviceRange(k).vmax - DeviceRange(k).vmin)

LastN(s, n) == SubSeq(s, Len(s) - n + 1, Len(s))

\* sum of the interpolated values of s[lo..hi]
RECURSIVE SumInterp(_, _, _, _)
SumInterp(k, s, lo, hi) ==
    IF lo > hi THEN 0
    ELSE IF lo = hi THEN Interp(k, s[lo])
    ELSE SumInterp(k, s, lo, (lo + hi) \div 2)
            + SumInterp(k, s, (lo + hi) \div 2 + 1, hi)

MeanOfLast(k, s, n) ==
    [sum |-> SumInterp(k, s, Len(s) - n + 1, Len(s)), n |-> n]

\* s[i-n+1..i] exists and is all zeros
ZerosEndAt(s, i, n) ==
    /\ i >= n /\ i <= Len(s)
    /\ \A j \in (i - n + 1) .. i : s[j] = 0

\* s holds n consecutive zeros
HasZeroRun(s, n) == \E i \in n .. Len(s) : ZerosEndAt(s, i, n)

Returned == nFrames' = nFrames + 1
Flushed == \E c \in Chans : nScalar'[c] # nScalar[c]
Streams == pc \in {"streaming", "done"}
WholeWindows == maxPoints % FRAME_SAMPLES = 0
FramesPerWindow == maxPoints \div FRAME_SAMPLES

----------------------------------------------------------------------------
(* Properties *)

\* C1: after every onFrame call that returns, 0 <= cursor < maxPoints, and the
\* call makes the waveform callbacks (one per channel) if and only if
\* cursor + FRAME_SAMPLES reached or exceeded maxPoints in that call; no other
\* step makes a waveform callback.
C1_CursorAndPublish ==
    [][ /\ Returned =>
            /\ cursor' >= 0 /\ cursor' < maxPoints
            /\ (cursor + FRAME_SAMPLES >= maxPoints)
                  => \A c \in Chans : nWaveform'[c] = nWaveform[c] + 1
            /\ (cursor + FRAME_SAMPLES < maxPoints)
                  => \A c \in Chans : nWaveform'[c] = nWaveform[c]
        /\ ~Returned => nWaveform' = nWaveform ]_vars

C1_Witness ==
    /\ maxPoints = 4 /\ FRAME_SAMPLES = 2
    /\ nFrames = 3 /\ cursor = 2
    /\ \A c \in Chans : nWaveform[c] = 1

\* C2: when the frames delivered so far hold 61 consecutive zeros of one
\* channel (in one frame or across frames), the stuck-at-zero fault has been
\* raised: the thread is not streaming any more.
C2_FaultBy61stZero ==
    (Streams /\ ~heapDamaged) =>
        \A k \in 1 .. nchan : ~HasZeroRun(rawLog[k], ZERO_LIMIT + 1)

\* C3: the fault is raised only at a sample that ends a run of more than 60
\* consecutive zeros of the faulting channel.
C3_FaultOnlyAfterRun ==
    fault # NoFault =>
        ZerosEndAt(rawLog[fault.chan + 1],
                   Len(rawLog[fault.chan + 1]) - FRAME_SAMPLES + fault.id + 1,
                   ZERO_LIMIT + 1)

\* C4: the fault is terminal: the step that raises it publishes no scalar and
\* no waveform, does not advance the cursor, leaves the samples of the frame
\* from the faulting one on unprocessed, and no step follows it.
C4_FaultTerminal ==
    [][ /\ fault # NoFault => UNCHANGED vars
        /\ (fault = NoFault /\ fault' # NoFault) =>
              /\ pc' = "exited"
              /\ UNCHANGED << nScalar, nWaveform, P_Scalar, wfOut, P_UpdateTime,
                              cursor, nFrames >>
              /\ acc'.count[fault'.chan] = acc.count[fault'.chan] + fault'.id
              /\ \A c \in Chans : c > fault'.chan => acc'.count[c] = acc.count[c]
              /\ \A c \in Chans : c < fault'.chan =>
                    acc'.count[c] = acc.count[c] + FRAME_SAMPLES ]_vars

C4_Witness ==
    /\ fault # NoFault /\ fault.chan = 1 /\ pc = "exited"
    /\ nFrames = 2

C6_WindowPublish ==
    (WholeWindows /\ Streams) =>
        /\ cursor = (nFrames % FramesPerWindow) * FRAME_SAMPLES
        /\ \A c \in Chans :
              /\ nWaveform[c] = nFrames \div FramesPerWindow
              /\ (nFrames >= FramesPerWindow /\ nFrames % FramesPerWindow = 0) =>
                    /\ DOMAIN wfOut[c] = 0 .. (maxPoints - 1)
                    /\ \A i \in 0 .. (maxPoints - 1) :
                          wfOut[c][i] = Interp(c + 1, LastN(rawLog[c + 1], maxPoints)[i + 1])

C6_Witness ==
    /\ maxPoints = 4 /\ FRAME_SAMPLES = 2 /\ nchan = 2 /\ pc = "streaming"
    /\ nFrames = 2 /\ cursor = 0
    /\ nWaveform[0] = 1 /\ nWaveform[1] = 1
    /\ wfOut[0] # wfOut[1]

\* the flush period when the scan frequency is set
PeriodSet == P_ScanFreq # Undefined /\ ValueOf(P_ScanFreq) # 0
PeriodNow == CDiv(NSPS, ValueOf(P_ScanFreq))

\* C7 as claimed: with the scan frequency set to give the period P, a flush
\* averages exactly P values of every channel and leaves sum and count zero.
C7_FlushAfterExactlyP ==
    [][ (Returned /\ Flushed /\ PeriodSet /\ PeriodNow >= 1 /\ acc.count[0] < PeriodNow)
          => \A c \in Chans :
                /\ P_Scalar'[c] =
                      Defined(MeanOfLast(c + 1, rawLog'[c + 1], PeriodNow))
                /\ acc'.sum[c] = 0 /\ acc'.count[c] = 0 ]_vars

\* C7 amended: every flush publishes for every channel the mean of all the
\* calibrated values of that channel accumulated since the previous flush and
\* leaves sum and count zero; the flush is tested once per frame, so with the
\* period P a positive multiple of FRAME_SAMPLES it happens after exactly P
\* samples per channel and averages exactly those P values.
C7_FlushMean ==
    [][ /\ (Returned /\ Flushed) =>
              \A c \in Chans :
                 /\ nScalar'[c] = nScalar[c] + 1
                 /\ P_Scalar'[c] =
                       Defined(MeanOfLast(c + 1, rawLog'[c + 1],
                                          acc.count[c] + FRAME_SAMPLES))
                 /\ acc'.sum[c] = 0 /\ acc'.count[c] = 0
        /\ (Returned /\ PeriodSet /\ PeriodNow >= 1 /\ PeriodNow % FRAME_SAMPLES = 0
              /\ acc.count[0] < PeriodNow) =>
              /\ Flushed = (acc.count[0] + FRAME_SAMPLES = PeriodNow)
              /\ Flushed => \A c \in Chans : ValueOf(P_Scalar'[c]).n = PeriodNow ]_vars

C7_Witness ==
    /\ FRAME_SAMPLES = 2 /\ nchan = 2 /\ nFrames = 2
    /\ P_ScanFreq = Defined(16)
    /\ nScalar[0] = 1 /\ nScalar[1] = 1
    /\ ValueOf(P_Scalar[1]).n = 4
    /\ acc.count[1] = 0

\* C8: whenever the flush branch of onFrame publishes, every channel has
\* accumulated at least one sample since the last clear, so no flush
\* publishes an average of zero samples.
C8_FlushHasSamples ==
    [][ Flushed => \A c \in Chans :
                      /\ P_Scalar'[c] # Undefined
                      /\ ValueOf(P_Scalar'[c]).n >= 1 ]_vars

C8_Witness ==
    /\ nFrames = 1 /\ acc.count[0] = 0
    /\ nScalar[0] = 1
    /\ ValueOf(P_Scalar[0]).n = FRAME_SAMPLES

\* C9: the calibration table is computed once per task run, before the frame
\* handler is registered and so before the first frame, and neither it nor
\* the count of computations changes once compute_cal has returned.
C9_CalibratedOnce ==
    [][ /\ calCount' <= 1
        /\ (handlerRegistered' \/ nFrames' > 0) => calCount = 1
        /\ pc # "task" => UNCHANGED << eslo, eoff, calCount >> ]_vars

C9_Witness ==
    /\ nFrames = 3 /\ calCount = 1 /\ pc = "streaming"

\* C10: after compute_cal, for every channel ic the calibration maps X1 to the
\* Ymin and X2 to the Ymax that the device reports for device channel ic+1,
\* and the value onFrame stores for a raw code x of channel ic is
\* eslo[ic]*x + eoff[ic], the interpolation over that channel's range.
C10_Calibration ==
    /\ calCount >= 1 =>
          \A ic \in Chans :
             /\ eslo[ic] * X1 + eoff[ic] = DeviceRange(ic + 1).vmin * VoltUnit
             /\ eslo[ic] * X2 + eoff[ic] = DeviceRange(ic + 1).vmax * VoltUnit
    /\ (WholeWindows /\ Streams /\ nFrames >= 1) =>
          \A ic \in Chans : \A id \in 0 .. (FRAME_SAMPLES - 1) :
             LET x == rawLog[ic + 1][(nFrames - 1) * FRAME_SAMPLES + id + 1]
                 at == ic * maxPoints
                          + ((nFrames - 1) % FramesPerWindow) * FRAME_SAMPLES + id
             IN  /\ pData_[at] = eslo[ic] * x + eoff[ic]
                 /\ pData_[at] = Interp(ic + 1, x)

C10_Witness ==
    /\ nchan = 2 /\ FRAME_SAMPLES = 64 /\ nFrames = 1 /\ pc = "streaming"
    /\ pData_[0] = Interp(1, X1)
    /\ pData_[maxPoints] = Interp(2, 2)

\* a client has set the run flag and then written it back to 0: the event is
\* signalled only by a write of a non-zero P_Run and nothing clears it
StopWritten == P_Run = 0 /\ eventId_

\* C11: once a client has written P_Run to 0 and no frame is in flight, no
\* further frame is handed to onFrame.
C11_StopEndsStream ==
    [][ (StopWritten /\ fpc = "idle") => rawLog' = rawLog ]_vars

\* a writeFloat64 of the update interval returns in this step
WriteReturned ==
    /\ rawLog' = rawLog
    /\ lastWrite' # lastWrite \/ P_UpdateTime' # P_UpdateTime

C13_FramesLeaveConfig ==
    [][ (rawLog' # rawLog) => UNCHANGED << P_ScanFreq, P_Run, P_UpdateTime >> ]_vars

\* C14: the diagnostic of the stuck-at-zero exit carries the index of the
\* faulting channel and the start sample number of the frame.
C14_DiagnosticNamesChannel ==
    diag # NoDiag =>
        /\ diag.start = fault.start
        /\ "chan" \in DOMAIN diag
        /\ diag.chan = fault.chan

\* C15: each onFrame call reads the scan frequency once, between the loops
\* and the flush decision, and the value read is the parameter's if it has
\* one; the one flush decision of the call is taken with the period of that
\* value whatever a client has written since; a client write of the scan
\* frequency flushes nothing and publishes nothing.
C15_OneReadPerFrame ==
    [][ /\ scan_freq' # scan_freq => fpc \in {"getIntegerParam", "window"}
        /\ (fpc = "getIntegerParam" /\ fpc' = "flush" /\ P_ScanFreq # Undefined)
              => scan_freq' = P_ScanFreq
        /\ Flushed => fpc = "flush"
        /\ (fpc = "flush" /\ fpc' = "window")
              => (Flushed <=> AccUpdateTimestamp(acc, Period(ValueOf(scan_freq))))
        /\ P_ScanFreq' # P_ScanFreq
              => UNCHANGED << scan_freq, acc, P_Scalar, nScalar, fpc >> ]_vars

C15_Witness ==
    /\ fpc = "window" /\ nFrames = 0
    /\ scan_freq = Defined(21) /\ P_ScanFreq = Defined(0)
    /\ \A c \in Chans : nScalar[c] = 0 /\ acc.count[c] = FRAME_SAMPLES

\* C16: every write of onFrame into pData_ lands in the segment of the channel
\* that writes it.
C16_WritesInSegment == ~strayWrite

\* C17: whenever onFrame gets as far as computing NSPS/scan_freq, the scan
\* frequency parameter has been given a value and the value is at least 1.
C17_ScanFreqDefined ==
    [][ (nFrames' # nFrames) =>
            /\ P_ScanFreq # Undefined
            /\ ValueOf(P_ScanFreq) >= 1 ]_vars

\* the values a client writes that lie below the floor
BelowFloor == { v \in UpdateTimeValues : v < MIN_UPDATE_TIME }

\* C18: the subscribers of P_UpdateTime are never handed a below-floor value
\* that a client wrote.
C18_NoUnclampedNotify ==
    utSeen = Undefined \/ ValueOf(utSeen) \notin BelowFloor

====
